---- MODULE Spec2Model ----
(***************************************************************************)
(* Model of the spot rescheduler's control loop (src/rescheduler.go,       *)
(* lines 1-330): the housekeeping loop of main, findSpotNodeForPod,        *)
(* buildDrainPlan and drainNode.                                           *)
(*                                                                         *)
(* Time is counted in housekeeping intervals.  Nodes are named by          *)
(* numbers (0 is the empty node name), pods are objects on a heap          *)
(* (podObjs) addressed by their ids, because the code passes *apiv1.Pod    *)
(* pointers around and writes through them.                                *)
(***************************************************************************)
EXTENDS Integers, Sequences, FiniteSets

\* ---------------------------------------------------------------- bounds
MaxTime == 3        \* the clock stops here
MaxDelay == 2       \* --node-drain-delay is drawn from 1..MaxDelay
MaxDrainTime == 1   \* a drain call blocks for 0..MaxDrainTime
MaxPods == 2        \* pods on the on-demand nodes of one listing
MaxUnsched == 1     \* unschedulable pods in the cluster
MaxPlanPods == 3    \* the same as MaxPods, for the listings of PlanSpec

\* ---------------------------------------------------------------- values
\* flag --housekeeping-interval: the unit of time of the model
housekeepingInterval == 1

\* apiv1.Pod.Spec.NodeName == ""
NoNode == 0

\* The nodes of the cluster in the order the node lister returns them: a
\* listing holds a prefix of each.
OnDemandNames == <<1, 2>>
SpotNames == <<3, 4>>

\* The kinds of pod the eviction-candidate filter tells apart.
PodKinds == {"replicated", "daemonset", "bare"}

\* CPU requests of the pods in a listing and allocatable CPU of the spot
\* nodes (whole CPUs).
PodCpus == {1, 2}
NodeCpus == {1, 2}

Range(s) == {s[i] : i \in DOMAIN s}

SeqsUpTo(S, n) == UNION {[1..k -> S] : k \in 0..n}

\* Pods as the API returns them, before they are bound to a node object:
\* daemonset and bare pods all request one CPU.
PodSpecs ==
    {[cpu |-> c, kind |-> "replicated"] : c \in PodCpus}
        \cup {[cpu |-> 1, kind |-> k] : k \in {"daemonset", "bare"}}

\* ------------------------------------------------------------- variables
VARIABLES
    now,                \* time.Now()
    nextDrainTime,      \* package variable nextDrainTime
    nodeDrainDelay,     \* flag --node-drain-delay
    pc,                 \* position of the loop in main
    unschedInCluster,   \* unschedulable pods in the cluster at cycle start
    unschedulablePods,  \* len(unschedulablePods) as listed, -1 before
    nodeMap,            \* nodeMap of this cycle: onDemand and spot arrays
    nodeMapBuilt,       \* nodes.NewNodeMap returned a map this cycle
    podObjs,            \* heap of the pod objects of this cycle
    idx,                \* index of the range loop over onDemandNodeInfos
    podsForDeletion,    \* podsForDeletion of the current iteration
    log,                \* history: one record per loop iteration
    drainCalls,         \* history: calls of drain.DrainNode this cycle
    metrics,            \* history: metric updates of this cycle
    lastDrainEnd,       \* history: when the latest drain call returned
    pdbsListed,         \* history: the PDB listing of this cycle succeeded
    inWindow,           \* history: the cycle started before nextDrainTime
    deadlineAtStart,    \* history: nextDrainTime when the cycle started
    listFailed,         \* history: the listing that failed this cycle, or ""
    cluster,            \* the unchanging cluster of LiveSpec; unused in Spec
    unschedListErr      \* history: the unschedulable-pod listing failed

vars == <<now, nextDrainTime, nodeDrainDelay, pc, unschedInCluster,
          unschedulablePods, nodeMap, nodeMapBuilt, podObjs, idx,
          podsForDeletion, log, drainCalls, metrics, lastDrainEnd,
          pdbsListed, inWindow, deadlineAtStart, listFailed, cluster, unschedListErr>>

\* ------------------------------------------------------ nodes and pods
NoMap == [onDemand |-> <<>>, spot |-> <<>>]
NoCluster == [onDemand |-> <<>>, spot |-> <<>>]
NoMetrics == [nodesMap |-> FALSE, spot |-> {}, onDemand |-> {}, drain |-> {}]

RECURSIVE SumLen(_)
SumLen(ss) == IF ss = <<>> THEN 0 ELSE Len(Head(ss)) + SumLen(Tail(ss))

\* Id of the j-th pod of the i-th on-demand node, of the pod of the k-th
\* spot node.
PodSlots == IF MaxPlanPods > MaxPods THEN MaxPlanPods ELSE MaxPods
OnDemandPodId(i, j) == (i - 1) * PodSlots + j
SpotPodId(k) == Len(OnDemandNames) * PodSlots + k

\* What a spot node looks like in a listing: allocatable CPU and whether a
\* one-CPU replicated pod already runs on it.
SpotSpecs == [alloc : NodeCpus, busy : BOOLEAN]

\* A cluster listing: the pods of each on-demand node, n at most in all,
\* and the spot nodes.
ListingsUpTo(n) ==
    [onDemand : {ss \in SeqsUpTo(SeqsUpTo(PodSpecs, n), Len(OnDemandNames)) :
                    SumLen(ss) <= n},
     spot : SeqsUpTo(SpotSpecs, Len(SpotNames))]

Listings == ListingsUpTo(MaxPods)

\* The listing as node objects and pod objects: nodeMap[OnDemand],
\* nodeMap[Spot] and the pods they point at, each pod bound to its node.
MapOf(l) ==
    [onDemand |->
        [i \in 1..Len(l.onDemand) |->
            [Node |-> [Name |-> OnDemandNames[i], alloc |-> PodSlots * 2],
             Pods |-> [j \in 1..Len(l.onDemand[i]) |-> OnDemandPodId(i, j)]]],
     spot |->
        [k \in 1..Len(l.spot) |->
            [Node |-> [Name |-> SpotNames[k], alloc |-> l.spot[k].alloc],
             Pods |-> IF l.spot[k].busy THEN <<SpotPodId(k)>> ELSE <<>>]]]

HeapOf(l) ==
    LET od == {c \in (1..Len(l.onDemand)) \X (1..PodSlots) :
                    c[2] <= Len(l.onDemand[c[1]])}
        sp == {k \in 1..Len(l.spot) : l.spot[k].busy}
        ids == {OnDemandPodId(c[1], c[2]) : c \in od} \cup {SpotPodId(k) : k \in sp}
        odOf(id) == CHOOSE c \in od : OnDemandPodId(c[1], c[2]) = id
        spOf(id) == CHOOSE k \in sp : SpotPodId(k) = id
    IN  [id \in ids |->
            IF id > Len(OnDemandNames) * PodSlots
            THEN [cpu |-> 1, kind |-> "replicated", nodeName |-> SpotNames[spOf(id)]]
            ELSE [cpu |-> l.onDemand[odOf(id)[1]][odOf(id)[2]].cpu,
                  kind |-> l.onDemand[odOf(id)[1]][odOf(id)[2]].kind,
                  nodeName |-> OnDemandNames[odOf(id)[1]]]]

\* ------------------------------------------------------ collaborators
RECURSIVE SumCpu(_, _)
SumCpu(pods, heap) ==
    IF pods = <<>> THEN 0 ELSE heap[Head(pods)].cpu + SumCpu(Tail(pods), heap)

\* predicateChecker.CheckPredicates(pod, kubeNodeInfo) returns nil: the pod
\* is bound to no other node and its CPU request fits next to the pods
\* of nodeInfo (schedulercache.NewNodeInfo(nodeInfo.Pods...)).
CheckPredicates(pod, nodeInfo, heap) ==
    /\ heap[pod].nodeName \in {NoNode, nodeInfo.Node.Name}
    /\ SumCpu(nodeInfo.Pods, heap) + heap[pod].cpu <= nodeInfo.Node.alloc

\* autoscaler_drain.GetPodsForDeletionOnNodeDrain(pods, pdbs, false, ...):
\* an error for a pod that may not be moved, else the replicated pods;
\* daemonset pods are left out.
GetPodsForDeletionOnNodeDrain(pods, heap) ==
    IF \E i \in DOMAIN pods : heap[pods[i]].kind = "bare"
    THEN [err |-> TRUE, pods |-> <<>>]
    ELSE [err |-> FALSE,
          pods |-> SelectSeq(pods, LAMBDA p : heap[p].kind = "replicated")]

\* nodes.NodeInfoArray.CopyNodeInfos: a new array of new NodeInfos with
\* their own pod slices.
CopyNodeInfos(nodeInfos) ==
    [i \in 1..Len(nodeInfos) |->
        [Node |-> nodeInfos[i].Node, Pods |-> nodeInfos[i].Pods]]

\* nodes.NodeInfo.AddPod
AddPod(nodeInfo, pod) == [nodeInfo EXCEPT !.Pods = Append(@, pod)]

\* ------------------------------------------------------------ planning
\* The range loop of findSpotNodeForPod from index i on; found = 0 is nil.
RECURSIVE findFrom(_, _, _, _)
findFrom(nodeInfos, pod, heap, i) ==
    IF i > Len(nodeInfos)
    THEN [found |-> 0, heap |-> heap]
    ELSE LET h == [heap EXCEPT ![pod].nodeName = NoNode]
         IN  IF CheckPredicates(pod, nodeInfos[i], h)
             THEN [found |-> i, heap |-> h]
             ELSE findFrom(nodeInfos, pod, h, i + 1)

\* Variant: the scan does not stop at the first node that fits, the last
\* one that fits is returned (best = 0 while none fits).
RECURSIVE findLastFrom(_, _, _, _, _)
findLastFrom(nodeInfos, pod, heap, i, best) ==
    IF i > Len(nodeInfos)
    THEN [found |-> best, heap |-> heap]
    ELSE LET h == [heap EXCEPT ![pod].nodeName = NoNode]
         IN  findLastFrom(nodeInfos, pod, h, i + 1,
                          IF CheckPredicates(pod, nodeInfos[i], h) THEN i ELSE best)

findSpotNodeForPodLast(nodeInfos, pod, heap) ==
    findLastFrom(nodeInfos, pod, heap, 1, 0)

\* Variant: the node name is cleared on a copy of the pod, the caller's pod
\* object is left as it is.
findSpotNodeForPodOnCopy(nodeInfos, pod, heap) ==
    [found |-> findFrom(nodeInfos, pod, heap, 1).found, heap |-> heap]

\* findSpotNodeForPod(client, predicateChecker, nodeInfos, pod)
findSpotNodeForPod(nodeInfos, pod, heap) == findFrom(nodeInfos, pod, heap, 1)

\* The range loop of buildDrainPlan from pod k on.  mem holds the two
\* arrays the call can reach: mem.real is the caller's nodeInfos,
\* mem.plan the copy; ref says which of them nodePlan refers to.
RECURSIVE planFrom(_, _, _, _, _, _)
planFrom(mem, ref, pods, heap, k, assign) ==
    IF k > Len(pods)
    THEN [err |-> FALSE, copyErr |-> FALSE, unplaceable |-> 0,
          assign |-> assign, mem |-> mem, heap |-> heap]
    ELSE LET r == findSpotNodeForPod(mem[ref], pods[k], heap)
         IN  IF r.found = 0
             THEN [err |-> TRUE, copyErr |-> FALSE, unplaceable |-> pods[k],
                   assign |-> assign, mem |-> mem, heap |-> r.heap]
             ELSE planFrom([mem EXCEPT ![ref][r.found] = AddPod(@, pods[k])],
                           ref, pods, r.heap, k + 1, Append(assign, r.found))

\* Variant: the plan is built on the caller's array, not on a copy.
buildDrainPlanNoCopy(nodeInfos, pods, heap, copyOk) ==
    IF ~copyOk
    THEN [err |-> TRUE, copyErr |-> TRUE, unplaceable |-> 0, assign |-> <<>>,
          mem |-> [real |-> nodeInfos, plan |-> <<>>], heap |-> heap]
    ELSE planFrom([real |-> nodeInfos, plan |-> <<>>],
                  "real", pods, heap, 1, <<>>)

\* Variant: a pod that found a node is not added to the node's pods.
RECURSIVE planFromNoAdd(_, _, _, _, _, _)
planFromNoAdd(mem, ref, pods, heap, k, assign) ==
    IF k > Len(pods)
    THEN [err |-> FALSE, copyErr |-> FALSE, unplaceable |-> 0,
          assign |-> assign, mem |-> mem, heap |-> heap]
    ELSE LET r == findSpotNodeForPod(mem[ref], pods[k], heap)
         IN  IF r.found = 0
             THEN [err |-> TRUE, copyErr |-> FALSE, unplaceable |-> pods[k],
                   assign |-> assign, mem |-> mem, heap |-> r.heap]
             ELSE planFromNoAdd(mem, ref, pods, r.heap, k + 1,
                                Append(assign, r.found))

buildDrainPlanNoAdd(nodeInfos, pods, heap, copyOk) ==
    IF ~copyOk
    THEN [err |-> TRUE, copyErr |-> TRUE, unplaceable |-> 0, assign |-> <<>>,
          mem |-> [real |-> nodeInfos, plan |-> <<>>], heap |-> heap]
    ELSE planFromNoAdd([real |-> nodeInfos, plan |-> CopyNodeInfos(nodeInfos)],
                       "plan", pods, heap, 1, <<>>)

\* Variant: a pod without a node does not end the loop; the error names
\* the last such pod.
RECURSIVE planFromNoStop(_, _, _, _, _, _, _)
planFromNoStop(mem, ref, pods, heap, k, assign, failed) ==
    IF k > Len(pods)
    THEN [err |-> failed # 0, copyErr |-> FALSE, unplaceable |-> failed,
          assign |-> assign, mem |-> mem, heap |-> heap]
    ELSE LET r == findSpotNodeForPod(mem[ref], pods[k], heap)
         IN  IF r.found = 0
             THEN planFromNoStop(mem, ref, pods, r.heap, k + 1, assign, pods[k])
             ELSE planFromNoStop([mem EXCEPT ![ref][r.found] = AddPod(@, pods[k])],
                                 ref, pods, r.heap, k + 1,
                                 IF failed = 0 THEN Append(assign, r.found)
                                 ELSE assign, failed)

buildDrainPlanNoStop(nodeInfos, pods, heap, copyOk) ==
    IF ~copyOk
    THEN [err |-> TRUE, copyErr |-> TRUE, unplaceable |-> 0, assign |-> <<>>,
          mem |-> [real |-> nodeInfos, plan |-> <<>>], heap |-> heap]
    ELSE planFromNoStop([real |-> nodeInfos, plan |-> CopyNodeInfos(nodeInfos)],
                        "plan", pods, heap, 1, <<>>, 0)

\* buildDrainPlan(kubeClient, predicateChecker, nodeInfos, pods); copyOk
\* says whether CopyNodeInfos returned without an error.
buildDrainPlan(nodeInfos, pods, heap, copyOk) ==
    IF ~copyOk
    THEN [err |-> TRUE, copyErr |-> TRUE, unplaceable |-> 0, assign |-> <<>>,
          mem |-> [real |-> nodeInfos, plan |-> <<>>], heap |-> heap]
    ELSE planFrom([real |-> nodeInfos, plan |-> CopyNodeInfos(nodeInfos)],
                  "plan", pods, heap, 1, <<>>)

\* ---------------------------------------------------------- the loop
\* Variant: the drain delay timer is not consulted.
CooldownActiveNever(t, deadline) == FALSE

\* main, line 134: time.Until(nextDrainTime) > 0
CooldownActive(t, deadline) == deadline - t > 0

\* main, lines 140-147: what List() hands back (nothing with an error) and
\* whether the cycle is skipped for it.
ListedUnschedulable(inCluster, listErr) == IF listErr THEN 0 ELSE inCluster

SkipForUnschedulable(listed, listErr) == listed > 0

\* Variant: the error of buildDrainPlan is logged but not acted on.
PlanAllowsDrainAlways(plan) == TRUE

\* main, lines 210-213: the plan's error decides whether the node is drained.
PlanAllowsDrain(plan) == ~plan.err

\* Variant: a node that is skipped ends the loop.
ContinueBreak(i, n) == [pc |-> "Idle", idx |-> i]

\* A continue statement of the range loop at index i of n.
Continue(i, n) ==
    IF i < n THEN [pc |-> "ProcessNode", idx |-> i + 1]
    ELSE [pc |-> "Idle", idx |-> i]

\* Variant: the loop goes on to the next node after a drain.
AfterDrainContinue(i, n) == Continue(i, n)

\* main, line 222: break after the drain.
AfterDrain(i, n) == [pc |-> "Idle", idx |-> i]

\* Variant: a failed drain leaves nextDrainTime alone.
NextDrainTimeAfterSuccessOnly(ok, t, delay, old) == IF ok THEN t + delay ELSE old

\* drainNode, lines 305-313: nextDrainTime when drain.DrainNode has
\* returned at time t.
NextDrainTimeAfter(ok, t, delay, old) == IF ok THEN t + delay ELSE t + delay

\* updateSpotNodeMetrics: one UpdateNodePodsCount per spot node whose
\* pods could be filtered.
updateSpotNodeMetrics(spotNodeInfos, heap) ==
    {<<spotNodeInfos[k].Node.Name,
       Len(GetPodsForDeletionOnNodeDrain(spotNodeInfos[k].Pods, heap).pods)>> :
        k \in {i \in DOMAIN spotNodeInfos :
                  ~GetPodsForDeletionOnNodeDrain(spotNodeInfos[i].Pods, heap).err}}

Init ==
    /\ now = 0
    /\ nextDrainTime = 0
    /\ nodeDrainDelay \in 1..MaxDelay
    /\ pc = "Idle"
    /\ unschedInCluster = 0
    /\ unschedulablePods = -1
    /\ nodeMap = NoMap
    /\ nodeMapBuilt = FALSE
    /\ podObjs = <<>>
    /\ idx = 0
    /\ podsForDeletion = <<>>
    /\ log = <<>>
    /\ drainCalls = <<>>
    /\ metrics = NoMetrics
    /\ lastDrainEnd = -1
    /\ pdbsListed = FALSE
    /\ inWindow = FALSE
    /\ deadlineAtStart = 0
    /\ listFailed = ""
    /\ cluster = NoCluster
    /\ unschedListErr = FALSE

\* case <-time.After(*housekeepingInterval): a new cycle starts; the
\* locals of the previous cycle are gone.
Tick ==
    /\ pc = "Idle"
    /\ now + housekeepingInterval <= MaxTime
    /\ now' = now + housekeepingInterval
    /\ pc' = "CooldownCheck"
    /\ unschedInCluster' \in 0..MaxUnsched
    /\ unschedulablePods' = -1
    /\ nodeMap' = NoMap
    /\ nodeMapBuilt' = FALSE
    /\ podObjs' = <<>>
    /\ idx' = 0
    /\ podsForDeletion' = <<>>
    /\ log' = <<>>
    /\ drainCalls' = <<>>
    /\ metrics' = NoMetrics
    /\ pdbsListed' = FALSE
    /\ inWindow' = (now + housekeepingInterval < nextDrainTime)
    /\ deadlineAtStart' = nextDrainTime
    /\ listFailed' = ""
    /\ unschedListErr' = FALSE
    /\ UNCHANGED <<nextDrainTime, nodeDrainDelay, lastDrainEnd, cluster>>

\* lines 133-137
CooldownCheckRearm ==
    /\ pc = "CooldownCheck"
    /\ pc' = IF CooldownActive(now, nextDrainTime) THEN "Idle" ELSE "SafetyCheck"
    /\ nextDrainTime' = IF CooldownActive(now, nextDrainTime)
                        THEN now + nodeDrainDelay ELSE nextDrainTime
    /\ UNCHANGED <<now, nodeDrainDelay, unschedInCluster,
                   unschedulablePods, nodeMap, nodeMapBuilt, podObjs, idx,
                   podsForDeletion, log, drainCalls, metrics, lastDrainEnd,
                   pdbsListed, inWindow, deadlineAtStart, listFailed, cluster, unschedListErr>>

CooldownCheck ==
    /\ pc = "CooldownCheck"
    /\ pc' = IF CooldownActive(now, nextDrainTime) THEN "Idle" ELSE "SafetyCheck"
    /\ UNCHANGED <<now, nextDrainTime, nodeDrainDelay, unschedInCluster,
                   unschedulablePods, nodeMap, nodeMapBuilt, podObjs, idx,
                   podsForDeletion, log, drainCalls, metrics, lastDrainEnd,
                   pdbsListed, inWindow, deadlineAtStart, listFailed, cluster, unschedListErr>>

\* lines 139-147
SafetyCheck ==
    /\ pc = "SafetyCheck"
    /\ \E listErr \in BOOLEAN :
        /\ unschedulablePods' = ListedUnschedulable(unschedInCluster, listErr)
        /\ pc' = IF SkipForUnschedulable(unschedulablePods', listErr)
                 THEN "Idle" ELSE "ListNodes"
        /\ unschedListErr' = listErr
    /\ UNCHANGED <<now, nextDrainTime, nodeDrainDelay, unschedInCluster,
                   nodeMap, nodeMapBuilt, podObjs, idx, podsForDeletion, log,
                   drainCalls, metrics, lastDrainEnd,
                   pdbsListed, inWindow, deadlineAtStart, listFailed, cluster>>

\* lines 151-156
ListNodesNoContinue ==
    /\ pc = "ListNodes"
    /\ \E listErr \in BOOLEAN :
        /\ pc' = "NewNodeMap"
        /\ listFailed' = IF listErr THEN "nodes" ELSE listFailed
    /\ UNCHANGED <<now, nextDrainTime, nodeDrainDelay, unschedInCluster,
                   unschedulablePods, nodeMap, nodeMapBuilt, podObjs, idx,
                   podsForDeletion, log, drainCalls, metrics, lastDrainEnd,
                   pdbsListed, inWindow, deadlineAtStart, cluster, unschedListErr>>

ListNodes ==
    /\ pc = "ListNodes"
    /\ \E listErr \in BOOLEAN :
        /\ pc' = IF listErr THEN "Idle" ELSE "NewNodeMap"
        /\ listFailed' = IF listErr THEN "nodes" ELSE listFailed
    /\ UNCHANGED <<now, nextDrainTime, nodeDrainDelay, unschedInCluster,
                   unschedulablePods, nodeMap, nodeMapBuilt, podObjs, idx,
                   podsForDeletion, log, drainCalls, metrics, lastDrainEnd,
                   pdbsListed, inWindow, deadlineAtStart, cluster, unschedListErr>>

\* lines 158-166: nodes.NewNodeMap fails, or returns the map of some
\* listing and metrics.UpdateNodesMap is called with it.
NewNodeMapOf(listings) ==
    /\ pc = "NewNodeMap"
    /\ \/ /\ pc' = "Idle"
          /\ listFailed' = "nodeMap"
          /\ UNCHANGED <<nodeMap, nodeMapBuilt, podObjs, metrics>>
       \/ \E l \in listings :
            /\ nodeMap' = MapOf(l)
            /\ podObjs' = HeapOf(l)
            /\ nodeMapBuilt' = TRUE
            /\ metrics' = [metrics EXCEPT !.nodesMap = TRUE]
            /\ pc' = "ListPDBs"
            /\ listFailed' = listFailed
    /\ UNCHANGED <<now, nextDrainTime, nodeDrainDelay, unschedInCluster,
                   unschedulablePods, idx, podsForDeletion, log, drainCalls,
                   lastDrainEnd,
                   pdbsListed, inWindow, deadlineAtStart, cluster, unschedListErr>>

NewNodeMap == NewNodeMapOf(Listings)

\* lines 168-184
ListPDBs ==
    /\ pc = "ListPDBs"
    /\ \/ /\ pc' = "Idle"
          /\ listFailed' = "pdbs"
          /\ UNCHANGED <<idx, metrics, pdbsListed>>
       \/ /\ pdbsListed' = TRUE
          /\ listFailed' = listFailed
          /\ metrics' = [metrics EXCEPT
                            !.spot = updateSpotNodeMetrics(nodeMap.spot, podObjs)]
          /\ IF Len(nodeMap.onDemand) < 1
             THEN pc' = "Idle" /\ idx' = idx
             ELSE pc' = "ProcessNode" /\ idx' = 1
    /\ UNCHANGED <<now, nextDrainTime, nodeDrainDelay, unschedInCluster,
                   unschedulablePods, nodeMap, nodeMapBuilt, podObjs,
                   podsForDeletion, log, drainCalls, lastDrainEnd,
                   inWindow, deadlineAtStart, cluster, unschedListErr>>

\* line 200: the node has no pod to move.
NothingToMoveNever(pods) == FALSE
NothingToMove(pods) == Len(pods) < 1

\* One record of the history of the loop.
LogEntry(i, filterErr, pods, planned, plan, before) ==
    [node |-> i, filterErr |-> filterErr, pods |-> pods, planned |-> planned,
     err |-> plan.err, copyErr |-> plan.copyErr,
     unplaceable |-> plan.unplaceable, assign |-> plan.assign,
     before |-> before, after |-> plan.mem.real, plan |-> plan.mem.plan]

NoPlan ==
    [err |-> FALSE, copyErr |-> FALSE, unplaceable |-> 0, assign |-> <<>>,
     mem |-> [real |-> <<>>, plan |-> <<>>], heap |-> <<>>]

\* lines 189-216: one iteration of the loop over onDemandNodeInfos, up to
\* the call of drainNode; copyOks are the outcomes nodes.CopyNodeInfos may
\* have.
ProcessNodeWhere(copyOks) ==
    /\ pc = "ProcessNode"
    /\ LET nodeInfo == nodeMap.onDemand[idx]
           n == Len(nodeMap.onDemand)
           f == GetPodsForDeletionOnNodeDrain(nodeInfo.Pods, podObjs)
       IN  IF f.err
           THEN /\ log' = Append(log, LogEntry(idx, TRUE, <<>>, FALSE, NoPlan, nodeMap.spot))
                /\ pc' = Continue(idx, n).pc
                /\ idx' = Continue(idx, n).idx
                /\ UNCHANGED <<nodeMap, podObjs, podsForDeletion, metrics>>
           ELSE /\ metrics' = [metrics EXCEPT
                        !.onDemand = @ \cup {<<nodeInfo.Node.Name, Len(f.pods)>>}]
                /\ IF NothingToMove(f.pods)
                   THEN /\ log' = Append(log, LogEntry(idx, FALSE, f.pods, FALSE, NoPlan, nodeMap.spot))
                        /\ pc' = Continue(idx, n).pc
                        /\ idx' = Continue(idx, n).idx
                        /\ UNCHANGED <<nodeMap, podObjs, podsForDeletion>>
                   ELSE \E copyOk \in copyOks :
                        LET plan == buildDrainPlan(nodeMap.spot, f.pods, podObjs, copyOk)
                        IN  /\ log' = Append(log, LogEntry(idx, FALSE, f.pods, TRUE, plan, nodeMap.spot))
                            /\ nodeMap' = [nodeMap EXCEPT !.spot = plan.mem.real]
                            /\ podObjs' = plan.heap
                            /\ IF PlanAllowsDrain(plan)
                               THEN /\ pc' = "Drain"
                                    /\ idx' = idx
                                    /\ podsForDeletion' = f.pods
                               ELSE /\ pc' = Continue(idx, n).pc
                                    /\ idx' = Continue(idx, n).idx
                                    /\ podsForDeletion' = podsForDeletion
    /\ UNCHANGED <<now, nextDrainTime, nodeDrainDelay, unschedInCluster,
                   unschedulablePods, nodeMapBuilt, drainCalls, lastDrainEnd,
                   pdbsListed, inWindow, deadlineAtStart, listFailed, cluster, unschedListErr>>

ProcessNode == ProcessNodeWhere(BOOLEAN)

\* lines 218 and 304: drainNode calls drain.DrainNode with the node and
\* its pods; the call blocks.
DrainStart ==
    /\ pc = "Drain"
    /\ drainCalls' = Append(drainCalls,
            [node |-> idx, pods |-> podsForDeletion, start |-> now,
             end |-> -1, ok |-> FALSE, prevEnd |-> lastDrainEnd])
    /\ pc' = "InDrain"
    /\ UNCHANGED <<now, nextDrainTime, nodeDrainDelay, unschedInCluster,
                   unschedulablePods, nodeMap, nodeMapBuilt, podObjs, idx,
                   podsForDeletion, log, metrics, lastDrainEnd,
                   pdbsListed, inWindow, deadlineAtStart, listFailed, cluster, unschedListErr>>

\* lines 304-313 and 219-222: drain.DrainNode returns after d, with or
\* without an error; drainNode counts the outcome and sets nextDrainTime;
\* main leaves the loop. oks are the outcomes drain.DrainNode may have.
DrainReturnWhere(oks) ==
    /\ pc = "InDrain"
    /\ \E d \in 0..MaxDrainTime, ok \in oks :
        /\ now + d <= MaxTime
        /\ now' = now + d
        /\ drainCalls' = [drainCalls EXCEPT ![Len(drainCalls)].end = now + d,
                                            ![Len(drainCalls)].ok = ok]
        /\ metrics' = [metrics EXCEPT !.drain = @ \cup
                {<<IF ok THEN "Success" ELSE "Failure", nodeMap.onDemand[idx].Node.Name>>}]
        /\ nextDrainTime' = NextDrainTimeAfter(ok, now + d, nodeDrainDelay, nextDrainTime)
        /\ lastDrainEnd' = now + d
    /\ pc' = AfterDrain(idx, Len(nodeMap.onDemand)).pc
    /\ idx' = AfterDrain(idx, Len(nodeMap.onDemand)).idx
    /\ UNCHANGED <<nodeDrainDelay, unschedInCluster, unschedulablePods,
                   nodeMap, nodeMapBuilt, podObjs, podsForDeletion, log,
                   pdbsListed, inWindow, deadlineAtStart, listFailed, cluster, unschedListErr>>

DrainReturn == DrainReturnWhere(BOOLEAN)

Next ==
    \/ Tick
    \/ CooldownCheck
    \/ SafetyCheck
    \/ ListNodes
    \/ NewNodeMap
    \/ ListPDBs
    \/ ProcessNode
    \/ DrainStart
    \/ DrainReturn

Spec == Init /\ [][Next]_vars

\* ------------------------------------------------- the first cycle
\* PlanSpec is the first cycle of the loop, with no unschedulable pod in
\* the cluster, on the listings of up to MaxPlanPods pods: what the loop
\* plans and drains in a cycle does not depend on the clock.
PlanTick ==
    /\ now = 0
    /\ Tick
    /\ unschedInCluster' = 0

PlanNewNodeMap == NewNodeMapOf(ListingsUpTo(MaxPlanPods))

PlanNext ==
    \/ PlanTick
    \/ CooldownCheck
    \/ SafetyCheck
    \/ ListNodes
    \/ PlanNewNodeMap
    \/ ListPDBs
    \/ ProcessNode
    \/ DrainStart
    \/ DrainReturn

PlanSpec == Init /\ [][PlanNext]_vars

\* ------------------------------------------- an unchanging cluster
\* LiveSpec runs the same loop against a cluster that stays as it is: the
\* listings succeed and return the same nodes and pods in every cycle, no
\* pod is unschedulable, nodes.CopyNodeInfos succeeds and every drain
\* fails, so that no pod leaves its node. The loop reads the clock only
\* through time.Until(nextDrainTime), so the clock is kept relative to the
\* start of the latest cycle and the loop can run for ever in finitely
\* many states.
Max(a, b) == IF a >= b THEN a ELSE b

LiveInit ==
    /\ now = 0
    /\ nextDrainTime = 0
    /\ nodeDrainDelay \in 1..MaxDelay
    /\ pc = "Idle"
    /\ unschedInCluster = 0
    /\ unschedulablePods = -1
    /\ nodeMap = NoMap
    /\ nodeMapBuilt = FALSE
    /\ podObjs = <<>>
    /\ idx = 0
    /\ podsForDeletion = <<>>
    /\ log = <<>>
    /\ drainCalls = <<>>
    /\ metrics = NoMetrics
    /\ lastDrainEnd = -1
    /\ pdbsListed = FALSE
    /\ inWindow = FALSE
    /\ deadlineAtStart = 0
    /\ listFailed = ""
    /\ cluster \in Listings
    /\ unschedListErr = FALSE

\* case <-time.After(*housekeepingInterval), with the clock moved so that
\* the cycle that ends is at 0.
LiveTick ==
    /\ pc = "Idle"
    /\ now' = housekeepingInterval
    /\ nextDrainTime' = Max(nextDrainTime - now, 0)
    /\ lastDrainEnd' = IF lastDrainEnd >= 0 THEN 0 ELSE -1
    /\ pc' = "CooldownCheck"
    /\ unschedInCluster' = 0
    /\ unschedulablePods' = -1
    /\ nodeMap' = NoMap
    /\ nodeMapBuilt' = FALSE
    /\ podObjs' = <<>>
    /\ idx' = 0
    /\ podsForDeletion' = <<>>
    /\ log' = <<>>
    /\ drainCalls' = <<>>
    /\ metrics' = NoMetrics
    /\ pdbsListed' = FALSE
    /\ inWindow' = (housekeepingInterval < nextDrainTime')
    /\ deadlineAtStart' = nextDrainTime'
    /\ listFailed' = ""
    /\ unschedListErr' = FALSE
    /\ UNCHANGED <<nodeDrainDelay, cluster>>

\* lines 139-147, the listing succeeds
LiveSafetyCheck ==
    /\ pc = "SafetyCheck"
    /\ unschedulablePods' = ListedUnschedulable(unschedInCluster, FALSE)
    /\ pc' = IF SkipForUnschedulable(unschedulablePods', FALSE)
             THEN "Idle" ELSE "ListNodes"
    /\ unschedListErr' = FALSE
    /\ UNCHANGED <<now, nextDrainTime, nodeDrainDelay, unschedInCluster,
                   nodeMap, nodeMapBuilt, podObjs, idx, podsForDeletion, log,
                   drainCalls, metrics, lastDrainEnd,
                   pdbsListed, inWindow, deadlineAtStart, listFailed, cluster>>

\* lines 151-156, the listing succeeds
LiveListNodes ==
    /\ pc = "ListNodes"
    /\ pc' = "NewNodeMap"
    /\ UNCHANGED <<now, nextDrainTime, nodeDrainDelay, unschedInCluster,
                   unschedulablePods, nodeMap, nodeMapBuilt, podObjs, idx,
                   podsForDeletion, log, drainCalls, metrics, lastDrainEnd,
                   pdbsListed, inWindow, deadlineAtStart, listFailed, cluster, unschedListErr>>

\* lines 158-166, nodes.NewNodeMap returns the map of the cluster
LiveNewNodeMap ==
    /\ pc = "NewNodeMap"
    /\ nodeMap' = MapOf(cluster)
    /\ podObjs' = HeapOf(cluster)
    /\ nodeMapBuilt' = TRUE
    /\ metrics' = [metrics EXCEPT !.nodesMap = TRUE]
    /\ pc' = "ListPDBs"
    /\ UNCHANGED <<now, nextDrainTime, nodeDrainDelay, unschedInCluster,
                   unschedulablePods, idx, podsForDeletion, log, drainCalls,
                   lastDrainEnd,
                   pdbsListed, inWindow, deadlineAtStart, listFailed, cluster, unschedListErr>>

\* lines 168-184, the listing succeeds
LiveListPDBs ==
    /\ pc = "ListPDBs"
    /\ pdbsListed' = TRUE
    /\ metrics' = [metrics EXCEPT
                      !.spot = updateSpotNodeMetrics(nodeMap.spot, podObjs)]
    /\ IF Len(nodeMap.onDemand) < 1
       THEN pc' = "Idle" /\ idx' = idx
       ELSE pc' = "ProcessNode" /\ idx' = 1
    /\ UNCHANGED <<now, nextDrainTime, nodeDrainDelay, unschedInCluster,
                   unschedulablePods, nodeMap, nodeMapBuilt, podObjs,
                   podsForDeletion, log, drainCalls, lastDrainEnd,
                   inWindow, deadlineAtStart, listFailed, cluster, unschedListErr>>

LiveProcessNode == ProcessNodeWhere({TRUE})

LiveDrainReturn == DrainReturnWhere({FALSE})

LiveNext ==
    \/ LiveTick
    \/ CooldownCheck
    \/ LiveSafetyCheck
    \/ LiveListNodes
    \/ LiveNewNodeMap
    \/ LiveListPDBs
    \/ LiveProcessNode
    \/ DrainStart
    \/ LiveDrainReturn

\* The loop is one goroutine that blocks only on its timer and on
\* drain.DrainNode, which returns within its timeouts: every step that
\* can be taken is taken.
LiveSpec == LiveInit /\ [][LiveNext]_vars /\ WF_vars(LiveNext)

\* ------------------------------------ the second variant of the loop
\* The second main of the file (lines 407-542) has no cooldown and no
\* check for unschedulable pods; its loop over the on-demand nodes copies
\* the spot array, filters the pods and walks them with a flag.

\* findSpotNodeForPod of the second variant, lines 574-587
findSpotNodeForPodV2(nodeInfos, pod, heap) == findFrom(nodeInfos, pod, heap, 1)

\* lines 513-525: the loop over podsForDeletion from pod k on
RECURSIVE podLoopV2(_, _, _, _)
podLoopV2(nodePlan, pods, heap, k) ==
    IF k > Len(pods)
    THEN [unmoveablePods |-> FALSE, nodePlan |-> nodePlan, heap |-> heap]
    ELSE LET r == findSpotNodeForPodV2(nodePlan, pods[k], heap)
         IN  IF r.found = 0
             THEN [unmoveablePods |-> TRUE, nodePlan |-> nodePlan, heap |-> r.heap]
             ELSE podLoopV2([nodePlan EXCEPT ![r.found] = AddPod(@, pods[k])],
                            pods, r.heap, k + 1)

\* Variant: the flag is not consulted.
DrainsV2Always(unmoveablePods) == TRUE

\* line 527: if !unmoveablePods
DrainsV2(unmoveablePods) == ~unmoveablePods

\* lines 487-536: the loop over onDemandNodeInfos from node i on, up to
\* the call of drain.DrainNode: the node and the pods it is called with, or
\* node 0. copyOks[i] says whether copyNodeInfos succeeds in iteration i.
RECURSIVE loopV2(_, _, _, _, _)
loopV2(onDemandNodeInfos, spotNodeInfos, heap, i, copyOks) ==
    IF i > Len(onDemandNodeInfos)
    THEN [node |-> 0, pods |-> <<>>, heap |-> heap]
    ELSE IF ~copyOks[i]
    THEN loopV2(onDemandNodeInfos, spotNodeInfos, heap, i + 1, copyOks)
    ELSE LET nodePlan == CopyNodeInfos(spotNodeInfos)
             f == GetPodsForDeletionOnNodeDrain(onDemandNodeInfos[i].Pods, heap)
         IN  IF f.err \/ Len(f.pods) < 1
             THEN loopV2(onDemandNodeInfos, spotNodeInfos, heap, i + 1, copyOks)
             ELSE LET r == podLoopV2(nodePlan, f.pods, heap, 1)
                  IN  IF DrainsV2(r.unmoveablePods)
                      THEN [node |-> i, pods |-> f.pods, heap |-> r.heap]
                      ELSE loopV2(onDemandNodeInfos, spotNodeInfos, r.heap,
                                  i + 1, copyOks)

\* ------------------------------------------------------------- claims
\* The eviction candidates of the i-th on-demand node of this cycle.
Candidates(i) ==
    SelectSeq(nodeMap.onDemand[i].Pods, LAMBDA p : podObjs[p].kind = "replicated")

\* The array arr after the first k pods were added to the nodes assign
\* names for them.
RECURSIVE Replay(_, _, _, _)
Replay(arr, pods, assign, k) ==
    IF k = 0 THEN arr
    ELSE [Replay(arr, pods, assign, k - 1) EXCEPT
              ![assign[k]].Pods = Append(@, pods[k])]

\* Free CPU of a node.
Free(nodeInfo) == nodeInfo.Node.alloc - SumCpu(nodeInfo.Pods, podObjs)

\* Every pod of the plan of log record e has a node, and that node took
\* the pod next to the pods placed before it.
PlanVerified(e) ==
    /\ Len(e.assign) = Len(e.pods)
    /\ \A k \in 1..Len(e.pods) :
        /\ e.assign[k] \in DOMAIN e.before
        /\ CheckPredicates(e.pods[k],
                           Replay(e.before, e.pods, e.assign, k - 1)[e.assign[k]],
                           podObjs)

\* C1: all-or-nothing drain.  Every call of the drain executor in a cycle
\* is for a node whose plan was built in that cycle and succeeded, its pods
\* are the eviction candidates of that node, and every one of them was
\* given a spot node that accepted it against the progressively filled
\* copy; a node whose plan failed is never drained.
C1_AllOrNothingDrain ==
    /\ \A c \in Range(drainCalls) :
        \E e \in Range(log) :
            /\ e.node = c.node
            /\ ~e.filterErr /\ e.planned /\ ~e.err
            /\ c.pods = e.pods
            /\ c.pods = Candidates(c.node)
            /\ PlanVerified(e)
    /\ \A e \in Range(log) :
        (e.planned /\ e.err) => \A c \in Range(drainCalls) : c.node # e.node

\* A node with two candidates was drained after an earlier step of the
\* cycle: the case of C1.
C1_Witness ==
    /\ pc = "Idle"
    /\ \E c \in Range(drainCalls) : Len(c.pods) >= 2 /\ c.end >= 0

\* C2: cooldown gating.  A drain attempt that follows an earlier attempt
\* (which returned at prevEnd, with or without an error) starts no earlier
\* than prevEnd + nodeDrainDelay.
C2_CooldownGating ==
    \A c \in Range(drainCalls) :
        c.prevEnd >= 0 => c.start >= c.prevEnd + nodeDrainDelay

\* A second drain attempt was made and has returned: the cooldown of the
\* first one had elapsed.
C2_Witness ==
    /\ \E c \in Range(drainCalls) : c.prevEnd >= 0
    /\ nextDrainTime > now

\* C3: unconditional cooldown update.  When the loop is idle again after a
\* drain attempt, nextDrainTime is the time the executor returned plus the
\* drain delay, whatever the executor returned.
C3_UnconditionalCooldown ==
    (pc # "InDrain" /\ drainCalls # <<>>) =>
        /\ drainCalls[Len(drainCalls)].end >= 0
        /\ nextDrainTime = drainCalls[Len(drainCalls)].end + nodeDrainDelay

\* A drain that took time and failed has returned.
C3_Witness ==
    /\ pc = "Idle"
    /\ drainCalls # <<>>
    /\ ~drainCalls[Len(drainCalls)].ok
    /\ drainCalls[Len(drainCalls)].end > drainCalls[Len(drainCalls)].start

\* C4: safety gate, as claimed: with unschedulable pods in the cluster at
\* cycle start, the cycle builds no NodeMap, builds no plan and drains no
\* node, also when listing the unschedulable pods fails.
C4_SafetyGate ==
    unschedInCluster > 0 =>
        /\ ~nodeMapBuilt
        /\ log = <<>>
        /\ drainCalls = <<>>

\* The plan of the i-th on-demand node succeeds when it is built on the
\* spot nodes of this cycle.
HasFeasiblePlan(i) ==
    /\ ~GetPodsForDeletionOnNodeDrain(nodeMap.onDemand[i].Pods, podObjs).err
    /\ Candidates(i) # <<>>
    /\ ~buildDrainPlan(nodeMap.spot, Candidates(i), podObjs, TRUE).err

\* C5: single node per cycle.  A cycle calls the drain executor at most
\* once; when every on-demand node of the cycle has a feasible plan and
\* the plans are built, the cycle ends with exactly one drain attempt, of
\* the first node, and no later node was looked at; a drain attempt that
\* follows another one starts after the cooldown.
C5_SingleNodePerCycle ==
    /\ Len(drainCalls) <= 1
    /\ (/\ pc = "Idle"
        /\ idx >= 1
        /\ Len(nodeMap.onDemand) >= 2
        /\ \A i \in DOMAIN nodeMap.onDemand : HasFeasiblePlan(i)
        /\ \A e \in Range(log) : ~e.copyErr)
        => /\ Len(drainCalls) = 1
           /\ drainCalls[1].node = 1
           /\ drainCalls[1].end >= 0
           /\ Len(log) = 1
    /\ \A c \in Range(drainCalls) :
        c.prevEnd >= 0 => c.start >= c.prevEnd + nodeDrainDelay

\* Two on-demand nodes with feasible plans, the cycle is over and one of
\* them was drained.
C5_Witness ==
    /\ pc = "Idle"
    /\ Len(nodeMap.onDemand) >= 2
    /\ \A i \in DOMAIN nodeMap.onDemand : HasFeasiblePlan(i)
    /\ Len(drainCalls) = 1

\* C6: plan atomicity.  A call of buildDrainPlan, failing or succeeding,
\* leaves the pods of every NodeInfo of the caller's spot array as they
\* were; the placements are in the copy only.
C6_PlanAtomicity ==
    \A e \in Range(log) :
        e.planned =>
            /\ e.after = e.before
            /\ ~e.copyErr => e.plan = Replay(e.before, e.pods, e.assign, Len(e.assign))

\* A plan failed after it had placed a pod, with a spot node that had a
\* pod of its own.
C6_Witness ==
    \E e \in Range(log) :
        /\ e.planned /\ e.err /\ ~e.copyErr
        /\ e.assign # <<>>
        /\ \E k \in DOMAIN e.before : e.before[k].Pods # <<>>

\* C7: tentative accumulation.  Every node a plan chose took its pod next
\* to the pods placed on it earlier in the plan.  With two candidates of
\* one CPU each and two spot nodes: when each spot node has exactly one
\* CPU free the plan succeeds with one pod per node; when one CPU is free
\* in all the plan fails at the second pod and the node is not drained.
C7_TentativeAccumulation ==
    \A e \in Range(log) :
        (e.planned /\ ~e.copyErr) =>
            /\ \A k \in 1..Len(e.assign) :
                Free(Replay(e.before, e.pods, e.assign, k - 1)[e.assign[k]])
                    >= podObjs[e.pods[k]].cpu
            /\ (/\ Len(e.pods) = 2
                /\ \A k \in 1..2 : podObjs[e.pods[k]].cpu = 1
                /\ Len(e.before) = 2)
                => /\ (Free(e.before[1]) = 1 /\ Free(e.before[2]) = 1)
                        => (~e.err /\ e.assign = <<1, 2>>)
                   /\ (Free(e.before[1]) + Free(e.before[2]) = 1)
                        => /\ e.err
                           /\ e.unplaceable = e.pods[2]
                           /\ \A c \in Range(drainCalls) : c.node # e.node

\* Both cases of C7 in one cycle is not possible (one node has two pods),
\* so the witness is the failing one: one CPU free in all, the first pod
\* placed, the second pod without a node.
C7_Witness ==
    \E e \in Range(log) :
        /\ e.planned /\ ~e.copyErr
        /\ Len(e.pods) = 2
        /\ \A k \in 1..2 : podObjs[e.pods[k]].cpu = 1
        /\ Len(e.before) = 2
        /\ Free(e.before[1]) + Free(e.before[2]) = 1
        /\ Len(e.assign) = 1

\* C8: greedy first fit.  Pods are taken in input order, and each is given
\* the lowest-index node of the copy that accepts it next to the pods
\* placed so far: the chosen node accepts it and no node before it does.
C8_GreedyFirstFit ==
    \A e \in Range(log) :
        (e.planned /\ ~e.copyErr) =>
            /\ Len(e.assign) <= Len(e.pods)
            /\ \A k \in 1..Len(e.assign) :
                LET plan == Replay(e.before, e.pods, e.assign, k - 1)
                IN  /\ e.assign[k] \in DOMAIN plan
                    /\ CheckPredicates(e.pods[k], plan[e.assign[k]], podObjs)
                    /\ \A j \in 1..(e.assign[k] - 1) :
                        ~CheckPredicates(e.pods[k], plan[j], podObjs)

\* A pod went to the first node although the second would have taken it
\* too, and another pod went to the second node.
C8_Witness ==
    \E e \in Range(log) :
        /\ e.planned /\ ~e.copyErr
        /\ Len(e.before) = 2
        /\ Len(e.assign) = 2
        /\ e.assign[1] = 1
        /\ CheckPredicates(e.pods[1], e.before[2], podObjs)
        /\ e.assign[2] = 2

\* C9: greedy order determinism.  A second planning call, made after the
\* first on the spot array and the pod objects as the first call left
\* them, has the outcome of the first: the same success or failure, the
\* same assignment and the same unplaceable pod.
C9_Determinism ==
    \A e \in Range(log) :
        (e.planned /\ ~e.copyErr) =>
            LET again == buildDrainPlan(e.after, e.pods, podObjs, TRUE)
            IN  /\ again.err = e.err
                /\ again.assign = e.assign
                /\ again.unplaceable = e.unplaceable

\* A plan that placed a pod on a node it filled: planning again on a
\* changed array would not place it there.
C9_Witness ==
    \E e \in Range(log) :
        /\ e.planned /\ ~e.copyErr
        /\ e.assign # <<>>
        /\ Free(e.plan[e.assign[1]]) = 0
        /\ podObjs[e.pods[1]].nodeName = NoNode

\* C10 as claimed: metrics are updated in every cycle; in particular a
\* cycle that started inside the cooldown window has updated some metric
\* when it ends, and has drained no node.
C10_MetricsEveryCycle ==
    (pc = "Idle" /\ inWindow) => (metrics # NoMetrics /\ drainCalls = <<>>)

\* The pod-count updates of the spot nodes and of the on-demand nodes the
\* loop has looked at.
SpotCounts ==
    {<<nodeMap.spot[k].Node.Name, Len(nodeMap.spot[k].Pods)>> : k \in DOMAIN nodeMap.spot}

OnDemandCounts ==
    {<<nodeMap.onDemand[e.node].Node.Name, Len(Candidates(e.node))>> :
        e \in {x \in Range(log) : ~x.filterErr}}

\* C10, amended: a cycle that passes the cooldown and the unschedulable
\* check and whose listings succeed updates the pod count of every spot
\* node and of every on-demand node it looks at and can filter, whether or
\* not it drains; a cycle that starts inside the cooldown window updates
\* no metric and drains no node.
C10_MetricsAfterGates ==
    /\ pdbsListed => (metrics.nodesMap /\ metrics.spot = SpotCounts)
    /\ metrics.onDemand = OnDemandCounts
    /\ inWindow => (metrics = NoMetrics /\ drainCalls = <<>> /\ log = <<>>)

\* A cycle that started inside the cooldown window has ended.
C10_Witness ==
    /\ pc = "Idle"
    /\ inWindow
    /\ now < nextDrainTime

\* The drain call of this cycle has returned.
DrainReturned ==
    drainCalls # <<>> /\ drainCalls[Len(drainCalls)].end # -1

\* C11: nextDrainTime changes only when a drain attempt ends. Until the
\* drain call of a cycle has returned, and so through every cycle that makes
\* no drain call (gated by the cooldown or by unschedulable pods, ended by a
\* listing error, with filter errors, no candidates or an infeasible plan
\* on every node), nextDrainTime is what it was when the cycle started.
\* Planning runs inside ProcessNode, so it is covered.
C11_CooldownFrame ==
    ~DrainReturned => nextDrainTime = deadlineAtStart

\* A cycle that has planned for a node, found the plan infeasible and
\* ended without a drain, with the deadline an earlier drain has set.
C11_Witness ==
    /\ pc = "Idle"
    /\ drainCalls = <<>>
    /\ \E k \in 1..Len(log) : log[k].planned /\ log[k].err
    /\ lastDrainEnd >= 0
    /\ nextDrainTime = lastDrainEnd + nodeDrainDelay

\* In the unchanging cluster the b-th on-demand node has candidates and a
\* feasible plan.
ClusterFeasible(b) ==
    /\ b <= Len(cluster.onDemand)
    /\ LET m == MapOf(cluster)
           h == HeapOf(cluster)
           f == GetPodsForDeletionOnNodeDrain(m.onDemand[b].Pods, h)
       IN  /\ ~f.err
           /\ f.pods # <<>>
           /\ ~buildDrainPlan(m.spot, f.pods, h, TRUE).err

Drained(b) == \E k \in 1..Len(drainCalls) : drainCalls[k].node = b

\* C12: as the claim states it. If an on-demand node persistently has
\* candidates and a feasible plan, no pod is unschedulable and the listings
\* succeed, a drain of that node is eventually attempted, whatever the
\* nodes before it in the listing are like: also when the plan of an
\* earlier node is feasible and its drain fails every time.
C12_NoStall ==
    \A b \in 1..Len(OnDemandNames) : ClusterFeasible(b) ~> Drained(b)

\* C13: fail-fast planning. A plan that fails (the copy was made) fails at
\* the first pod, in input order, that no node of the progressively filled
\* copy accepts: the pods before it were placed, the error names exactly
\* that pod, and no pod after it was looked at, so the later pods still
\* carry the name of their node, which findSpotNodeForPod clears before it
\* checks a pod.
C13_FailFast ==
    \A e \in Range(log) :
        (e.planned /\ e.err /\ ~e.copyErr) =>
            LET k == Len(e.assign) + 1
                plan == Replay(e.before, e.pods, e.assign, k - 1)
            IN  /\ k <= Len(e.pods)
                /\ e.unplaceable = e.pods[k]
                /\ \A j \in DOMAIN plan :
                    ~CheckPredicates(e.pods[k], plan[j], podObjs)
                /\ \A q \in (k + 1)..Len(e.pods) :
                    /\ podObjs[e.pods[q]].nodeName = OnDemandNames[e.node]
                    /\ e.unplaceable # e.pods[q]

\* A plan failed at the first of two pods, and the second pod would have
\* fitted.
C13_Witness ==
    \E e \in Range(log) :
        /\ e.planned /\ e.err /\ ~e.copyErr
        /\ Len(e.pods) = 2
        /\ e.unplaceable = e.pods[1]
        /\ \E j \in DOMAIN e.before :
            CheckPredicates(e.pods[2], e.before[j],
                            [podObjs EXCEPT ![e.pods[2]].nodeName = NoNode])

\* C14: node selection order. In a cycle that has its NodeMap and in which
\* every copy of the spot array succeeded, the node handed to the drain
\* executor is the first on-demand node, in listing order, whose filtering
\* succeeds with candidates and whose plan is feasible: the nodes before it
\* have a filter error, no candidates or an infeasible plan and were only
\* skipped. When the loop is over and some node qualifies, a drain was
\* attempted; when none qualifies, none was.
C14_SelectionOrder ==
    (nodeMapBuilt /\ \A e \in Range(log) : ~e.copyErr) =>
        /\ \A c \in Range(drainCalls) :
            /\ HasFeasiblePlan(c.node)
            /\ \A j \in 1..(c.node - 1) : ~HasFeasiblePlan(j)
        /\ (pc = "Idle" /\ pdbsListed) =>
            (drainCalls # <<>> <=>
                \E i \in DOMAIN nodeMap.onDemand : HasFeasiblePlan(i))

\* The second node was drained after the first was skipped for its
\* infeasible plan.
C14_Witness ==
    /\ pc = "Idle"
    /\ Len(drainCalls) = 1
    /\ drainCalls[1].node = 2
    /\ Len(log) = 2
    /\ log[1].planned /\ log[1].err /\ ~log[1].copyErr

\* C15: listing errors abort the cycle. When the listing of the ready
\* nodes, the building of the NodeMap or the listing of the PDBs has
\* failed, the loop is back at its timer: nothing was planned, nothing was
\* drained, nextDrainTime is what it was at the start of the cycle, no
\* step after the failed one has run (no PDB listing marked done, no spot
\* or on-demand pod counts), a NodeMap that could not be listed or built
\* does not exist, in part or whole, and the next tick can start a cycle.
C15_ListingErrorsAbort ==
    listFailed # "" =>
        /\ pc = "Idle"
        /\ log = <<>>
        /\ drainCalls = <<>>
        /\ nextDrainTime = deadlineAtStart
        /\ ~pdbsListed
        /\ metrics.spot = {} /\ metrics.onDemand = {} /\ metrics.drain = {}
        /\ listFailed \in {"nodes", "nodeMap"} =>
            (nodeMap = NoMap /\ ~nodeMapBuilt /\ podObjs = <<>> /\ ~metrics.nodesMap)
        /\ now + housekeepingInterval <= MaxTime => ENABLED Tick

\* The PDB listing failed in a cycle whose NodeMap had a node with a
\* feasible plan.
C15_Witness ==
    /\ listFailed = "pdbs"
    /\ pc = "Idle"
    /\ \E i \in DOMAIN nodeMap.onDemand : HasFeasiblePlan(i)

\* The listing of the unschedulable pods of this cycle has failed: List()
\* returned an error (lines 140-143), whatever the cluster holds.
UnschedListFailed == unschedListErr

\* C16: as the claim states it. A failure of the listing of the
\* unschedulable pods aborts the cycle like the other listing failures:
\* after it the loop is back at its timer, without a NodeMap, a plan or a
\* drain.
C16_UnschedListingAborts ==
    UnschedListFailed =>
        /\ pc = "Idle"
        /\ ~nodeMapBuilt
        /\ log = <<>>
        /\ drainCalls = <<>>

\* C17: the cooldown check does no further work. A cycle that starts
\* while the clock is before nextDrainTime goes from the check straight
\* back to the timer: the unschedulable pods are not listed, no node, pod
\* or PDB is listed, no NodeMap is built, no metric is updated, nothing is
\* planned and nothing is drained.
C17_CooldownNoWork ==
    inWindow =>
        /\ pc \in {"CooldownCheck", "Idle"}
        /\ unschedulablePods = -1
        /\ listFailed = ""
        /\ ~nodeMapBuilt /\ nodeMap = NoMap /\ podObjs = <<>>
        /\ ~pdbsListed
        /\ metrics = NoMetrics
        /\ log = <<>>
        /\ drainCalls = <<>>

\* A cycle that started in the cooldown window of an earlier drain has
\* ended, with an unschedulable pod in the cluster that nobody listed.
C17_Witness ==
    /\ pc = "Idle"
    /\ inWindow
    /\ lastDrainEnd >= 0
    /\ unschedInCluster > 0

\* The pod objects as nodes.NewNodeMap handed them out: every pod of an
\* on-demand node carries the name of its node.
SnapshotHeap ==
    [p \in DOMAIN podObjs |->
        IF \E i \in DOMAIN nodeMap.onDemand : p \in Range(nodeMap.onDemand[i].Pods)
        THEN [podObjs[p] EXCEPT !.nodeName =
                nodeMap.onDemand[CHOOSE i \in DOMAIN nodeMap.onDemand :
                                    p \in Range(nodeMap.onDemand[i].Pods)].Node.Name]
        ELSE podObjs[p]]

\* C18: fresh plan per on-demand node. Every plan of a cycle is built on
\* the spot array as the first plan of the cycle found it, without the
\* placements an earlier, failed plan has made, and its outcome (success or
\* failure, assignment, unplaceable pod) is the outcome of planning the
\* same pods on the cycle's spot array as the only plan.
C18_FreshPlanPerNode ==
    \A k \in 1..Len(log) :
        (log[k].planned /\ ~log[k].copyErr) =>
            /\ log[k].before = log[1].before
            /\ log[k].after = log[1].before
            /\ LET alone == buildDrainPlan(log[1].before, log[k].pods,
                                           SnapshotHeap, TRUE)
               IN  /\ alone.err = log[k].err
                   /\ alone.assign = log[k].assign
                   /\ alone.unplaceable = log[k].unplaceable

\* The plan of the first node placed a pod and then failed, and a plan
\* was built for the second node.
C18_Witness ==
    /\ Len(log) >= 2
    /\ log[1].planned /\ log[1].err /\ Len(log[1].assign) >= 1
    /\ log[2].planned /\ ~log[2].copyErr

\* C19: the two variants agree on the drain decision. When the loop of
\* the first variant is over, in a cycle that passed its gates and listed
\* its nodes, pods and PDBs, the loop of the second variant, run on the same
\* NodeMap and pod objects with the same outcomes of the copies, calls the
\* drain executor for the same node with the same pods, or not at all.
C19_VariantsAgree ==
    (pc = "Idle" /\ pdbsListed) =>
        \A copyOks \in [DOMAIN nodeMap.onDemand -> BOOLEAN] :
            (\A e \in Range(log) : e.planned => copyOks[e.node] = ~e.copyErr) =>
                LET v2 == loopV2(nodeMap.onDemand, nodeMap.spot, SnapshotHeap,
                                 1, copyOks)
                IN  IF drainCalls = <<>>
                    THEN v2.node = 0
                    ELSE /\ v2.node = drainCalls[1].node
                         /\ v2.pods = drainCalls[1].pods

\* The first variant has drained the second node after the plan of the
\* first node placed a pod and failed.
C19_Witness ==
    /\ pc = "Idle"
    /\ pdbsListed
    /\ Len(drainCalls) = 1
    /\ drainCalls[1].node = 2
    /\ drainCalls[1].pods # <<>>
    /\ log[1].planned /\ log[1].err /\ Len(log[1].assign) >= 1

\* C20: no empty drain. The drain executor is never called with an empty
\* pod set or for a node without candidates; a node whose filtering
\* returns no candidate is skipped: no plan is built for it and it is not
\* drained; and while every node the loop has looked at had no candidate,
\* nextDrainTime is what it was when the cycle started.
C20_NoEmptyDrain ==
    /\ \A c \in Range(drainCalls) :
        c.pods # <<>> /\ Candidates(c.node) # <<>>
    /\ \A e \in Range(log) :
        (~e.filterErr /\ e.pods = <<>>) =>
            /\ ~e.planned
            /\ \A c \in Range(drainCalls) : c.node # e.node
    /\ (\A e \in Range(log) : e.pods = <<>>) => nextDrainTime = deadlineAtStart

\* The first node, with a pod that is no candidate, was skipped and the
\* second node was drained: the cycle is over.
C20_Witness ==
    /\ pc = "Idle"
    /\ Len(log) = 2
    /\ ~log[1].filterErr /\ log[1].pods = <<>>
    /\ nodeMap.onDemand[1].Pods # <<>>
    /\ Len(drainCalls) = 1
    /\ drainCalls[1].node = 2
    /\ drainCalls[1].end >= 0

\* The pods of log record e that buildDrainPlan has passed to
\* findSpotNodeForPod: none when no plan was built or the copy failed
\* (lines 282-285 return before the loop), else the pods that were placed
\* and the unplaceable one.
Looked(e) ==
    IF ~e.planned \/ e.copyErr
    THEN {}
    ELSE {e.pods[k] : k \in {j \in 1..Len(e.pods) : j <= Len(e.assign) + 1}}

\* C21, as the claim states it: every pod handed to the drain executor has
\* an empty node name, and the pods of a node whose plan failed at an
\* unplaceable pod have an empty node name, up to and including that pod,
\* for the rest of the cycle.
C21_ClearedAsStated ==
    /\ \A c \in Range(drainCalls) :
        \A p \in Range(c.pods) : podObjs[p].nodeName = NoNode
    /\ \A e \in Range(log) :
        (e.planned /\ e.err /\ e.unplaceable # 0) =>
            \A p \in Looked(e) : podObjs[p].nodeName = NoNode

\* C21, amended: planning clears the node name on the pod objects of the
\* caller. In a cycle with at least one spot node, every pod that a plan
\* has passed to findSpotNodeForPod has an empty node name, placed or not,
\* for the rest of the cycle; every pod handed to the drain executor has an
\* empty node name; with no spot node findSpotNodeForPod examines nothing
\* and the unplaceable pod keeps the name of its node.
C21_ClearsCallerPods ==
    /\ \A c \in Range(drainCalls) :
        \A p \in Range(c.pods) : podObjs[p].nodeName = NoNode
    /\ \A e \in Range(log) :
        (e.planned /\ ~e.copyErr) =>
            \A p \in Looked(e) :
                podObjs[p].nodeName =
                    IF Len(e.before) >= 1 THEN NoNode ELSE OnDemandNames[e.node]

\* The plan of the first node failed at its pod after a spot node was
\* examined for it, and the second node was handed to the drain executor.
C21_Witness ==
    /\ Len(log) = 2
    /\ log[1].planned /\ log[1].err /\ log[1].unplaceable # 0
    /\ Len(log[1].before) >= 1
    /\ podObjs[log[1].unplaceable].nodeName = NoNode
    /\ Len(drainCalls) = 1
    /\ drainCalls[1].node = 2

====
